---- MODULE Spec2Model ----
(***************************************************************************)
(* Model of the lesson player (langAppST/pages.py, lesson_presenter.py,     *)
(* content.py) and of the progress store (langAppST/progress_handler.py).   *)
(*                                                                         *)
(* A Streamlit script is re-run from the top after every widget event.  An *)
(* action of this model is one learner event together with every script    *)
(* run it causes (the run that handles the event and the runs started by   *)
(* st.rerun()), up to the page the learner then sees.  A widget inside an   *)
(* @st.fragment function re-runs that function only, so its return value   *)
(* reaches player() only in a run of the whole script.                     *)
(***************************************************************************)
EXTENDS Integers, Sequences, FiniteSets, TLC

VARIABLES
    ss,               \* st.session_state
    outcome,          \* StepOutcome.can_go_next that player() got in the latest whole-script run
    feedback,         \* the st.error / st.success boxes of the latest run of the step
    typed,            \* the value of the step's st.text_input
    lesson_progress,  \* table lesson_progress: rows keyed by <<user_id, course_id, lesson_id>>
    user_stats,       \* table user_stats: column known_words keyed by <<user_id, course_id>>
    ret,              \* the latest ProgressStore call: its arguments and its return value
    visit_links,      \* history: the match items linked since the step was loaded
    inflight,         \* per browser session, the lesson_completed call it is in: its position and locals
    done_steps        \* history: of the step ids in its field tracked, those ever shown completed (field done)

vars == <<ss, outcome, feedback, typed, lesson_progress, user_stats, ret, visit_links, inflight, done_steps>>

(***************************************************************************)
(* Bounds of the model.                                                    *)
(***************************************************************************)
MaxLen == 3        \* longest text a learner types in SpecText
MaxMistakes == 2   \* the mistake counter stops counting here
MaxKnown == 4      \* longest known_words list the store is driven to

(***************************************************************************)
(* Python values.                                                          *)
(***************************************************************************)
None == "<None>"

Range(f) == {f[i] : i \in DOMAIN f}

\* x in list
PyIn(x, list) == \E i \in DOMAIN list : list[i] = x

Min(a, b) == IF a <= b THEN a ELSE b

RECURSIVE Perms(_)
\* every order random.shuffle can leave a list in
Perms(s) ==
    IF Len(s) = 0 THEN {<<>>}
    ELSE UNION {{<<s[i]>> \o p :
                    p \in Perms([j \in 1..(Len(s) - 1) |-> IF j < i THEN s[j] ELSE s[j + 1]])} :
                i \in 1..Len(s)}

(***************************************************************************)
(* Text: a str is a sequence of characters.  U+00E4 is a-umlaut, U+00C4 its *)
(* capital.                                                                *)
(***************************************************************************)
ascii_lowercase ==
    <<"a", "b", "c", "d", "e", "f", "g", "h", "i", "j", "k", "l", "m",
      "n", "o", "p", "q", "r", "s", "t", "u", "v", "w", "x", "y", "z">>

ascii_uppercase ==
    <<"A", "B", "C", "D", "E", "F", "G", "H", "I", "J", "K", "L", "M",
      "N", "O", "P", "Q", "R", "S", "T", "U", "V", "W", "X", "Y", "Z">>

ascii_letters == Range(ascii_lowercase) \cup Range(ascii_uppercase)

\* str.casefold() on one character
casefold_char(c) ==
    IF \E i \in DOMAIN ascii_uppercase : ascii_uppercase[i] = c
    THEN ascii_lowercase[CHOOSE i \in DOMAIN ascii_uppercase : ascii_uppercase[i] = c]
    ELSE IF c = "U+00C4" THEN "U+00E4" ELSE c

casefold(s) == [i \in DOMAIN s |-> casefold_char(s[i])]

in_ascii_letters(letter) == letter \in ascii_letters

\* comparison_string without its second line
comparison_string_no_casefold(input_string) == SelectSeq(input_string, in_ascii_letters)

\* comparison_string without the filter of its first line
comparison_string_no_filter(input_string) == casefold(input_string)

comparison_string(input_string) ==
    LET result == SelectSeq(input_string, in_ascii_letters)
    IN  casefold(result)

caseIns_solutions(solutions) == [i \in DOMAIN solutions |-> comparison_string(solutions[i])]

\* the test of render_cloze, render_translate_type and render_listen_type
answer_accepted(answer, solutions) == PyIn(comparison_string(answer), caseIns_solutions(solutions))

(***************************************************************************)
(* Lessons.  A step is the dict read from the lesson's YAML; the keys a     *)
(* step type does not use are left empty.                                  *)
(***************************************************************************)
Step(id, type) ==
    [id |-> id, type |-> type, tokens |-> <<>>, pairs |-> <<>>, answers |-> <<>>,
     target |-> <<<<>>, <<>>>>, answer |-> ""]

Pair(l, r) == [left |-> l, right |-> r]

StepMatchA == [Step("match_0", "match") EXCEPT !.pairs = <<Pair("Hund", "dog"), Pair("Chatz", "cat")>>]
StepMatchB == [Step("match_1", "match") EXCEPT !.pairs = <<Pair("Huus", "house"), Pair("Boum", "tree")>>]
StepOrder == [Step("order_2", "order") EXCEPT !.tokens = <<"Ich", "gseh", "Baern">>]
StepIntro == Step("introduce_word_0", "introduce_word")
StepMarkdown == Step("markdown_0", "markdown")
StepCloze ==
    [Step("cloze_1", "cloze") EXCEPT !.answers = <<<<"j", "a">>>>, !.target = <<<<"S">>, <<"!">>>>]
StepTranslate == [Step("translate_type_2", "translate_type") EXCEPT !.answers = <<<<"j", "a">>, <<"j", "o">>>>]
StepListen == [Step("listen_type_3", "listen_type") EXCEPT !.answers = <<<<"j", "a">>>>]
StepTrueFalse == [Step("true_false_4", "true_false") EXCEPT !.answer = "True"]

LessonMatch == [id |-> "01_match", steps |-> <<StepMarkdown, StepMatchA, StepMatchB, StepTrueFalse>>]
LessonText == [id |-> "02_text", steps |-> <<StepIntro, StepCloze, StepOrder, StepTranslate, StepListen>>]

\* load_lessons(course_id): the lessons of the course
Lessons == {LessonMatch, LessonText}

(***************************************************************************)
(* st.session_state                                                        *)
(***************************************************************************)
\* clear_lesson_sessionstate without st.session_state["mistakes"] = 0
clear_lesson_sessionstate_keeping_mistakes(s) ==
    [s EXCEPT !.pressed_match_buttons = <<>>,
              !.match_sel_btn = None,
              !.left = <<>>,
              !.right = <<>>,
              !.order_tokens = <<>>,
              !.used_tokens = <<>>,
              !.order_answer = <<>>,
              !.new_words = <<>>,
              !.take_over_answer = <<>>,
              !.lesson_dict = [id |-> "", steps |-> <<>>],
              !.correct_order = <<>>,
              !.last_pair = <<>>,
              !.match_sound = "",
              !.exercise_done = FALSE]

clear_lesson_sessionstate(s) ==
    [s EXCEPT !.pressed_match_buttons = <<>>,
              !.match_sel_btn = None,
              !.left = <<>>,
              !.right = <<>>,
              !.order_tokens = <<>>,
              !.used_tokens = <<>>,
              !.order_answer = <<>>,
              !.mistakes = 0,
              !.new_words = <<>>,
              !.take_over_answer = <<>>,
              !.lesson_dict = [id |-> "", steps |-> <<>>],
              !.correct_order = <<>>,
              !.last_pair = <<>>,
              !.match_sound = "",
              !.exercise_done = FALSE]

reset_select_sessionstate(s) ==
    [s EXCEPT !.order_tokens = <<>>,
              !.used_tokens = <<>>,
              !.order_answer = <<>>,
              !.correct_order = <<>>,
              !.exercise_done = FALSE]

\* the session when the course page is first shown
FreshSession(guest) ==
    clear_lesson_sessionstate(
        [guest |-> guest, user |-> IF guest THEN "guest" ELSE "u1", nav |-> [page |-> "course_page", course_id |-> "c1", current_lesson |-> ""],
         step_idx |-> 0, pressed_match_buttons |-> <<>>, match_sel_btn |-> None, left |-> <<>>,
         right |-> <<>>, order_tokens |-> <<>>, used_tokens |-> <<>>, order_answer |-> <<>>,
         mistakes |-> 0, new_words |-> <<>>, take_over_answer |-> <<>>,
         lesson_dict |-> [id |-> "", steps |-> <<>>], correct_order |-> <<>>, last_pair |-> <<>>,
         match_sound |-> "", exercise_done |-> FALSE])

included_steps == {"cloze", "order", "translate_type", "listen_type", "true_false", "match"}

is_included_step(step) == step.type \in included_steps

find_new_exercises(lesson_dict) == SelectSeq(lesson_dict.steps, is_included_step)

\* lesson_dict["steps"][step_idx]
current_step(s) == s.lesson_dict.steps[s.step_idx + 1]

\* mistake_made without the increment
mistake_made_nothing(s) == s

mistake_made(s) == [s EXCEPT !.mistakes = @ + 1]

(***************************************************************************)
(* render_step: one run of the step's render function with no widget       *)
(* pressed.  A view is the session the run leaves, the StepOutcome it       *)
(* returns and the boxes it shows; random.shuffle makes it a set of views. *)
(***************************************************************************)
View(s, can_go_next, shown) == [ss |-> s, can_go_next |-> can_go_next, shown |-> shown]

\* submitted_exercise() is called when exercise_done is set
success_shown(s) == IF s.exercise_done THEN {"success"} ELSE {}

\* render_markdown returning can_go_next as the exercise steps do
render_markdown_when_done(s, step) == {View(s, s.exercise_done, {})}

render_markdown(s, step) == {View(s, TRUE, {})}

render_introduce_word(s, step) == {View(s, TRUE, {})}

\* the blank of the question has the length of solutions[0], an IndexError when
\* the step has no answers; the run ends there and the page shows the exception
render_cloze(s, step) ==
    IF s.take_over_answer # <<>>
    THEN {View([s EXCEPT !.take_over_answer = <<>>], TRUE, {"success"})}
    ELSE IF step.answers = <<>>
         THEN {View(s, FALSE, {"exception"})}
         ELSE {View(s, FALSE, {})}

\* render_order_load keeping the shuffled list as the solution
render_order_load_shuffled(s, step, tokens) ==
    IF s.order_tokens = <<>>
    THEN [s EXCEPT !.correct_order = tokens, !.order_tokens = tokens]
    ELSE s

\* the first lines of render_order, tokens being what random.shuffle left
render_order_load(s, step, tokens) ==
    IF s.order_tokens = <<>>
    THEN [s EXCEPT !.correct_order = step.tokens, !.order_tokens = tokens]
    ELSE s

\* the loop of the token buttons reaches button i: st.button(label=tokens[i]) has
\* no key, so the second button of one label (and of one disabled value, which
\* the label decides) raises Streamlit's duplicate widget id error
token_button_rendered(tokens, i) ==
    /\ i \in DOMAIN tokens
    /\ \A j, k \in 1..i : j # k => tokens[j] # tokens[k]

\* button i of the pool is on the page and is not disabled
token_button_enabled(s, i) ==
    /\ token_button_rendered(s.order_tokens, i)
    /\ ~PyIn(s.order_tokens[i], s.used_tokens)

render_order(s, step) ==
    {IF \A i \in DOMAIN t.order_tokens : token_button_rendered(t.order_tokens, i)
     THEN View(t, t.exercise_done, success_shown(t))
     ELSE View(t, FALSE, {"exception"}) :
        t \in {render_order_load(s, step, tokens) : tokens \in Perms(step.tokens)}}

render_translate_type(s, step) == {View(s, s.exercise_done, success_shown(s))}

render_listen_type(s, step) == {View(s, s.exercise_done, success_shown(s))}

render_true_false(s, step) == {View(s, s.exercise_done, success_shown(s))}

\* the pools of render_match, left and right being what random.shuffle left
render_match_load(s, step, left, right) ==
    [s EXCEPT !.left = IF s.left = <<>> THEN left ELSE @,
              !.right = IF s.right = <<>> THEN right ELSE @,
              !.match_sound = ""]

\* the end of render_match: all_buttons holds both items of every pair
render_match_done(s, step) ==
    IF Len(s.pressed_match_buttons) = 2 * Len(step.pairs) /\ ~s.exercise_done
    THEN [s EXCEPT !.exercise_done = TRUE]
    ELSE s

render_match(s, step) ==
    {View(t, t.exercise_done, success_shown(t)) :
        t \in {render_match_done(render_match_load(s, step, left, right), step) :
                  left \in Perms([i \in DOMAIN step.pairs |-> step.pairs[i].left]),
                  right \in Perms([i \in DOMAIN step.pairs |-> step.pairs[i].right])}}

render_step(s, step) ==
    CASE step.type = "markdown" -> render_markdown(s, step)
      [] step.type = "introduce_word" -> render_introduce_word(s, step)
      [] step.type = "cloze" -> render_cloze(s, step)
      [] step.type = "order" -> render_order(s, step)
      [] step.type = "translate_type" -> render_translate_type(s, step)
      [] step.type = "listen_type" -> render_listen_type(s, step)
      [] step.type = "match" -> render_match(s, step)
      [] step.type = "true_false" -> render_true_false(s, step)
      [] OTHER -> {View(s, TRUE, {})}

\* a run of the whole script on page "lesson", no widget pressed
player_run(s) == render_step(s, current_step(s))

(***************************************************************************)
(* ProgressStore.  A table is the set of its rows; upsert(on_conflict=key) *)
(* replaces the row with the same key.  A time is a number of ticks, a     *)
(* day being TicksPerDay of them; datetime.now() is an input of each call, *)
(* since the wall clock of one host is not monotonic and two hosts         *)
(* writing to the same database do not share one.                          *)
(***************************************************************************)
TicksPerDay == 2

MAX_MISTAKES == 12
DAYS_NORM == 30
REPETITION_SIZE == 10

\* a Python str among the elements of a list of dicts
PyStr(x) == [str |-> x]

same_progress_key(r, row) ==
    r.user_id = row.user_id /\ r.course_id = row.course_id /\ r.lesson_id = row.lesson_id

same_stats_key(r, row) == r.user_id = row.user_id /\ r.course_id = row.course_id

get_known_words(guest, stats, user_id, course_id) ==
    IF guest THEN <<>>
    ELSE LET response == {r \in stats : r.user_id = user_id /\ r.course_id = course_id}
         IN  IF response = {} THEN <<>> ELSE (CHOOSE r \in response : TRUE).known_words

RECURSIVE add_new_words(_, _)
\* the loop of lesson_completed over new_words
add_new_words(completed_list, new_words) ==
    IF new_words = <<>> THEN completed_list
    ELSE LET word == Head(new_words)
         IN  add_new_words(IF ~PyIn(PyStr(word.id), completed_list)
                           THEN Append(completed_list, word)
                           ELSE completed_list,
                           Tail(new_words))

\* lesson_completed without its first two lines
lesson_completed_no_guest(guest, progress, stats, user_id, course_id, lesson_id, mistakes_made, new_words, now) ==
    LET completed_list ==
            add_new_words(get_known_words(FALSE, stats, user_id, course_id), new_words)
        row == [user_id |-> user_id, course_id |-> course_id, lesson_id |-> lesson_id,
                completed |-> 1, mistakes |-> mistakes_made, updated_at |-> now]
        stat == [user_id |-> user_id, course_id |-> course_id, known_words |-> completed_list]
    IN  [lesson_progress |-> {r \in progress : ~same_progress_key(r, row)} \cup {row},
         user_stats |-> {r \in stats : ~same_stats_key(r, stat)} \cup {stat}]

\* lesson_completed with an insert into lesson_progress in place of the upsert
lesson_completed_insert(guest, progress, stats, user_id, course_id, lesson_id, mistakes_made, new_words, now) ==
    IF guest THEN [lesson_progress |-> progress, user_stats |-> stats]
    ELSE LET completed_list ==
                 add_new_words(get_known_words(guest, stats, user_id, course_id), new_words)
             row == [user_id |-> user_id, course_id |-> course_id, lesson_id |-> lesson_id,
                     completed |-> 1, mistakes |-> mistakes_made, updated_at |-> now]
             stat == [user_id |-> user_id, course_id |-> course_id, known_words |-> completed_list]
         IN  [lesson_progress |-> progress \cup {row},
              user_stats |-> {r \in stats : ~same_stats_key(r, stat)} \cup {stat}]

\* the two tables after lesson_completed
lesson_completed(guest, progress, stats, user_id, course_id, lesson_id, mistakes_made, new_words, now) ==
    IF guest THEN [lesson_progress |-> progress, user_stats |-> stats]
    ELSE LET completed_list ==
                 add_new_words(get_known_words(guest, stats, user_id, course_id), new_words)
             row == [user_id |-> user_id, course_id |-> course_id, lesson_id |-> lesson_id,
                     completed |-> 1, mistakes |-> mistakes_made, updated_at |-> now]
             stat == [user_id |-> user_id, course_id |-> course_id, known_words |-> completed_list]
         IN  [lesson_progress |-> {r \in progress : ~same_progress_key(r, row)} \cup {row},
              user_stats |-> {r \in stats : ~same_stats_key(r, stat)} \cup {stat}]

\* check_lesson_completed without .eq("lesson_id", lesson_id)
check_lesson_completed_any(guest, progress, user_id, course_id, lesson_id) ==
    IF guest THEN 0
    ELSE LET response == {r \in progress : r.user_id = user_id /\ r.course_id = course_id}
         IN  IF response = {} THEN 0 ELSE (CHOOSE r \in response : TRUE).completed

check_lesson_completed(guest, progress, user_id, course_id, lesson_id) ==
    IF guest THEN 0
    ELSE LET response == {r \in progress : r.user_id = user_id /\ r.course_id = course_id
                                           /\ r.lesson_id = lesson_id}
         IN  IF response = {} THEN 0 ELSE (CHOOSE r \in response : TRUE).completed

\* reset_lesson without .eq("lesson_id", lesson_id)
reset_lesson_all(guest, progress, user_id, course_id, lesson_id) ==
    IF guest THEN progress
    ELSE {r \in progress : ~(r.user_id = user_id /\ r.course_id = course_id)}

reset_lesson(guest, progress, user_id, course_id, lesson_id) ==
    IF guest THEN progress
    ELSE {r \in progress : ~(r.user_id = user_id /\ r.course_id = course_id /\ r.lesson_id = lesson_id)}

\* the select of get_recommended_lesson without .eq("user_id", user_id)
completed_rows_any_user(progress, user_id, course_id) ==
    {r \in progress : r.course_id = course_id /\ r.completed = 1}

\* the rows the select of get_recommended_lesson returns, in no order
completed_rows(progress, user_id, course_id) ==
    {r \in progress : r.user_id = user_id /\ r.course_id = course_id /\ r.completed = 1}

\* timedelta.days of now - last_done
delta_days(now, last_done) == (now - last_done) \div TicksPerDay

\* 0.8 * min(mistakes, 12) / 12 + 0.2 * days / 30, times 10 * 12 * 30 to stay in the integers
score(mistakes, days) == 8 * DAYS_NORM * Min(mistakes, MAX_MISTAKES) + 2 * MAX_MISTAKES * days

RECURSIVE scan_lessons(_, _, _, _)
\* the loop of get_recommended_lesson over lessons_info
scan_lessons(lessons_info, now, recommended_lesson_id, prev_top_value) ==
    IF lessons_info = <<>> THEN recommended_lesson_id
    ELSE LET lesson == Head(lessons_info)
             value == score(lesson.mistakes, delta_days(now, lesson.updated_at))
         IN  IF value >= prev_top_value
             THEN scan_lessons(Tail(lessons_info), now, lesson.lesson_id, value)
             ELSE scan_lessons(Tail(lessons_info), now, recommended_lesson_id, prev_top_value)

\* lessons_info is response.data, the selected rows in the order the database returned them
get_recommended_lesson(guest, lessons_info, now) ==
    IF guest THEN None ELSE scan_lessons(lessons_info, now, "", 0)

\* known_words_temp is the known words as random.shuffle left them
generate_word_repetition(guest, known_words_temp) ==
    IF guest THEN None
    ELSE LET number == Min(Len(known_words_temp), REPETITION_SIZE)
         IN  [id |-> "REPETITION", steps |-> SubSeq(known_words_temp, 1, number)]

\* whether generate_word_repetition leaves through its "return None"
generate_word_repetition_none(guest, known_words_temp) == guest

\* the browser sessions the user of the model is logged in from
Sessions == {"s1", "s2"}

\* a session that is in no lesson_completed call
IdleCall ==
    [pc |-> "idle", lesson_id |-> "", mistakes_made |-> 0, new_words |-> <<>>, now |-> 0,
     completed_list |-> <<>>]

\* the orders the database can return a set of rows in
RowOrders(rows) ==
    {f \in [1..Cardinality(rows) -> rows] : \A i, j \in DOMAIN f : f[i] = f[j] => i = j}

\* some of the orders random.shuffle can leave a list in: its rotations and
\* its reversal
Shuffles(list) ==
    LET n == Len(list)
        rot(k) == [i \in 1..n |-> list[((i + k - 1) % n) + 1]]
    IN  IF n = 0 THEN {<<>>}
        ELSE {rot(k) : k \in 0..(n - 1)} \cup {[i \in 1..n |-> list[n + 1 - i]]}

(***************************************************************************)
(* The learner's events on the lesson page.                                *)
(***************************************************************************)
on_step(type) == ss.nav.page = "lesson" /\ current_step(ss).type = type

last_condition(s) == s.step_idx >= Len(s.lesson_dict.steps) - 1

\* the exercise steps of 01_match, whose completions the history follows in SpecSkip
TrackedSteps == {"match_0", "match_1", "true_false_4"}

\* the history that follows no step
NoHistory == [tracked |-> {}, done |-> {}]

\* history: the step on the page is shown completed (exercise_done, or the run
\* of the whole script returned can_go_next = true)
RecordDone ==
    done_steps' = IF /\ ss'.nav.page = "lesson"
                     /\ ss'.exercise_done \/ outcome'
                     /\ current_step(ss').id \in done_steps.tracked
                  THEN [done_steps EXCEPT !.done = @ \cup {current_step(ss').id}]
                  ELSE done_steps

\* the page the learner sees after a run of the whole script
Show(view) ==
    /\ ss' = view.ss
    /\ outcome' = view.can_go_next
    /\ feedback' = view.shown
    /\ RecordDone

\* the page after a run of the step's fragment alone, which showed st.error
ShowFragmentError(s) ==
    /\ ss' = s
    /\ outcome' = outcome
    /\ feedback' = {"error"} \cup success_shown(s)
    /\ RecordDone

\* the last run ended in an exception before it reached the step's widgets and
\* the buttons under the step
script_aborted == "exception" \in feedback

StoreUnchanged == UNCHANGED <<lesson_progress, user_stats, ret, inflight>>

\* course_page: "Start Lesson" of a lesson of the list
StartLesson(lesson) ==
    /\ ss.nav.page = "course_page"
    /\ LET s1 == clear_lesson_sessionstate(
                     [ss EXCEPT !.nav = [page |-> "lesson", course_id |-> ss.nav.course_id,
                                         current_lesson |-> lesson.id]])
           s2 == [s1 EXCEPT !.step_idx = 0, !.lesson_dict = lesson,
                            !.new_words = find_new_exercises(lesson)]
       IN  \E view \in player_run(s2) : Show(view)
    /\ typed' = <<>>
    /\ visit_links' = {}
    /\ StoreUnchanged

\* content.load_lesson_content: the lesson of the course with this id
load_lesson_content(lesson_id) == CHOOSE lesson \in Lessons : lesson.id = lesson_id

\* course_page: "Start Lesson" of the panel "Recommended Lesson", shown when
\* get_recommended_lesson returned an id
StartRecommended(now) ==
    /\ ss.nav.page = "course_page"
    /\ \E lessons_info \in RowOrders(completed_rows(lesson_progress, ss.user, ss.nav.course_id)) :
          LET rec_lesson_id == get_recommended_lesson(ss.guest, lessons_info, now)
              s1 == clear_lesson_sessionstate(
                        [ss EXCEPT !.nav = [page |-> "lesson", course_id |-> ss.nav.course_id,
                                            current_lesson |-> rec_lesson_id]])
              s2 == [s1 EXCEPT !.step_idx = 0, !.lesson_dict = load_lesson_content(rec_lesson_id)]
          IN  /\ rec_lesson_id \notin {None, ""}
              /\ \E view \in player_run(s2) : Show(view)
    /\ typed' = <<>>
    /\ visit_links' = {}
    /\ StoreUnchanged

\* course_page: "Start Lesson" of the panel "Repeat Random Exercises", shown
\* when get_known_words is not empty
StartRepetition ==
    /\ ss.nav.page = "course_page"
    /\ LET known_words == get_known_words(ss.guest, user_stats, ss.user, ss.nav.course_id)
       IN  /\ known_words # <<>>
           /\ \E known_words_temp \in Shuffles(known_words) :
                 LET s1 == clear_lesson_sessionstate(
                               [ss EXCEPT !.nav = [page |-> "lesson", course_id |-> ss.nav.course_id,
                                                   current_lesson |-> "REPETITION"]])
                     s2 == [s1 EXCEPT !.step_idx = 0,
                                      !.lesson_dict = generate_word_repetition(ss.guest, known_words_temp)]
                 IN  \E view \in player_run(s2) : Show(view)
    /\ typed' = <<>>
    /\ visit_links' = {}
    /\ StoreUnchanged

\* the button at the top left recording the lesson as completed on the way out
BackToLessons_completing ==
    /\ ss.nav.page = "lesson"
    /\ ss' = [ss EXCEPT !.nav = [page |-> "course_page", course_id |-> ss.nav.course_id,
                                  current_lesson |-> ""]]
    /\ LET tables == lesson_completed(ss.guest, lesson_progress, user_stats, ss.user, ss.nav.course_id,
                                      ss.nav.current_lesson, ss.mistakes, ss.new_words, 0)
       IN  /\ Len(get_known_words(ss.guest, tables.user_stats, ss.user, ss.nav.course_id)) <= MaxKnown
           /\ lesson_progress' = tables.lesson_progress
           /\ user_stats' = tables.user_stats
    /\ feedback' = {}
    /\ typed' = <<>>
    /\ UNCHANGED <<outcome, visit_links, ret, inflight, done_steps>>

\* player: the button at the top left
BackToLessons ==
    /\ ss.nav.page = "lesson"
    /\ ss' = [ss EXCEPT !.nav = [page |-> "course_page", course_id |-> ss.nav.course_id,
                                  current_lesson |-> ""]]
    /\ feedback' = {}
    /\ typed' = <<>>
    /\ UNCHANGED <<outcome, visit_links, done_steps>>
    /\ StoreUnchanged

\* Navigate moving step_idx by two steps at a time
Navigate_double(d) ==
    /\ \E before \in player_run(ss) :
          \E view \in player_run(reset_select_sessionstate([before.ss EXCEPT !.step_idx = @ + 2 * d])) :
              Show(view)
    /\ typed' = IF current_step(ss').type = current_step(ss).type THEN typed ELSE <<>>
    /\ visit_links' = {}

\* player: a click on Back, Skip or Next moves step_idx by d.  The run that
\* handles the click renders the step once more before it reaches the button.
Navigate(d) ==
    /\ \E before \in player_run(ss) :
          \E view \in player_run(reset_select_sessionstate([before.ss EXCEPT !.step_idx = @ + d])) :
              Show(view)
    \* the text input of the next step is the same widget when the step has the same type
    /\ typed' = IF current_step(ss').type = current_step(ss).type THEN typed ELSE <<>>
    /\ visit_links' = {}

Back ==
    /\ ss.nav.page = "lesson"
    /\ ~script_aborted
    /\ ~(ss.step_idx <= 0)
    /\ Navigate(-1)
    /\ StoreUnchanged

Skip ==
    /\ ss.nav.page = "lesson"
    /\ ~script_aborted
    /\ ~last_condition(ss)
    /\ Navigate(1)
    /\ StoreUnchanged

NextStep ==
    /\ ss.nav.page = "lesson"
    /\ ~script_aborted
    /\ ~last_condition(ss)
    /\ outcome
    /\ Navigate(1)
    /\ StoreUnchanged

\* "Finish Lesson" offered on every step
FinishLesson_any_step ==
    /\ ss.nav.page = "lesson"
    /\ ~script_aborted
    /\ outcome
    /\ \E before \in player_run(ss) :
          /\ ss' = [before.ss EXCEPT !.nav = [page |-> "finish", course_id |-> ss.nav.course_id,
                                              current_lesson |-> ss.nav.current_lesson]]
          /\ outcome' = before.can_go_next
    /\ feedback' = {}
    /\ typed' = <<>>
    /\ UNCHANGED <<visit_links, done_steps>>
    /\ StoreUnchanged

FinishLesson ==
    /\ ss.nav.page = "lesson"
    /\ ~script_aborted
    /\ last_condition(ss)
    /\ outcome
    /\ \E before \in player_run(ss) :
          /\ ss' = [before.ss EXCEPT !.nav = [page |-> "finish", course_id |-> ss.nav.course_id,
                                              current_lesson |-> ss.nav.current_lesson]]
          /\ outcome' = before.can_go_next
    /\ feedback' = {}
    /\ typed' = <<>>
    /\ UNCHANGED <<visit_links, done_steps>>
    /\ StoreUnchanged

\* "continue" without the test for the id "REPETITION"
Continue_any_lesson(now) ==
    /\ ss.nav.page = "finish"
    /\ LET tables == lesson_completed(ss.guest, lesson_progress, user_stats, ss.user, ss.nav.course_id,
                                      ss.nav.current_lesson, ss.mistakes, ss.new_words, now)
       IN  /\ Len(get_known_words(ss.guest, tables.user_stats, ss.user, ss.nav.course_id)) <= MaxKnown
           /\ lesson_progress' = tables.lesson_progress
           /\ user_stats' = tables.user_stats
    /\ ret' = [op |-> "lesson_completed", guest |-> ss.guest, user_id |-> ss.user,
               course_id |-> ss.nav.course_id, lesson_id |-> ss.nav.current_lesson,
               mistakes_made |-> ss.mistakes, new_words |-> ss.new_words, now |-> now]
    /\ ss' = clear_lesson_sessionstate(
                 [ss EXCEPT !.nav = [page |-> "course_page", course_id |-> ss.nav.course_id,
                                     current_lesson |-> ""]])
    /\ UNCHANGED <<outcome, feedback, typed, visit_links, inflight, done_steps>>

\* finishing_screen: "continue"
Continue(now) ==
    /\ ss.nav.page = "finish"
    /\ LET lesson_id == ss.nav.current_lesson
           tables == IF lesson_id # "REPETITION"
                     THEN lesson_completed(ss.guest, lesson_progress, user_stats, ss.user,
                                           ss.nav.course_id, lesson_id, ss.mistakes, ss.new_words, now)
                     ELSE [lesson_progress |-> lesson_progress, user_stats |-> user_stats]
       IN  /\ Len(get_known_words(ss.guest, tables.user_stats, ss.user, ss.nav.course_id)) <= MaxKnown
           /\ lesson_progress' = tables.lesson_progress
           /\ user_stats' = tables.user_stats
           /\ ret' = IF lesson_id # "REPETITION"
                     THEN [op |-> "lesson_completed", guest |-> ss.guest, user_id |-> ss.user,
                           course_id |-> ss.nav.course_id, lesson_id |-> lesson_id,
                           mistakes_made |-> ss.mistakes, new_words |-> ss.new_words, now |-> now]
                     ELSE ret
    /\ ss' = clear_lesson_sessionstate(
                 [ss EXCEPT !.nav = [page |-> "course_page", course_id |-> ss.nav.course_id,
                                     current_lesson |-> ""]])
    /\ UNCHANGED <<outcome, feedback, typed, visit_links, inflight, done_steps>>

(***************************************************************************)
(* The learner's events inside a step.                                     *)
(***************************************************************************)
\* the three free-text step types
text_types == {"cloze", "translate_type", "listen_type"}

\* the learner edits the st.text_input of the step's form; no run of the script
TypeText(text) ==
    /\ ss.nav.page = "lesson"
    /\ current_step(ss).type \in text_types
    /\ ~script_aborted
    /\ typed' = text
    /\ UNCHANGED <<ss, outcome, feedback, visit_links, done_steps>>
    /\ StoreUnchanged

\* render_cloze: "Check" with answer in the text input
SubmitCloze ==
    /\ on_step("cloze")
    /\ ~script_aborted
    /\ LET step == current_step(ss)
           answer == typed
       IN  IF answer_accepted(answer, step.answers)
           THEN \E view \in player_run(
                        [ss EXCEPT !.take_over_answer = step.target[1] \o answer \o step.target[2]]) :
                    Show(view)
           ELSE /\ ss.mistakes < MaxMistakes
                /\ ss' = mistake_made(ss)
                /\ outcome' = outcome
                /\ feedback' = {"error"}
                /\ RecordDone
    /\ UNCHANGED <<typed, visit_links>>
    /\ StoreUnchanged

\* render_translate_type: "Check" with answer_type in the text input
SubmitTranslate ==
    /\ on_step("translate_type")
    /\ IF answer_accepted(typed, current_step(ss).answers)
       THEN \E view \in player_run([ss EXCEPT !.exercise_done = TRUE]) : Show(view)
       ELSE /\ ss.mistakes < MaxMistakes
            /\ ShowFragmentError(mistake_made(ss))
    /\ UNCHANGED <<typed, visit_links>>
    /\ StoreUnchanged

\* render_listen_type: "Check" with answer_listen in the text input
SubmitListen ==
    /\ on_step("listen_type")
    /\ IF answer_accepted(typed, current_step(ss).answers)
       THEN \E view \in player_run([ss EXCEPT !.exercise_done = TRUE]) : Show(view)
       ELSE /\ ss.mistakes < MaxMistakes
            /\ ShowFragmentError(mistake_made(ss))
    /\ UNCHANGED <<typed, visit_links>>
    /\ StoreUnchanged

\* a click on "True" or "False" that takes the other label for the right one
ClickTrueFalse_other(label) ==
    /\ on_step("true_false")
    /\ IF current_step(ss).answer # label
       THEN \E view \in player_run([ss EXCEPT !.exercise_done = TRUE]) : Show(view)
       ELSE /\ ss.mistakes < MaxMistakes
            /\ ShowFragmentError(mistake_made(ss))
    /\ UNCHANGED <<typed, visit_links>>
    /\ StoreUnchanged

\* render_true_false: a click on the button "True" or "False"
ClickTrueFalse(label) ==
    /\ on_step("true_false")
    /\ IF current_step(ss).answer = label
       THEN \E view \in player_run([ss EXCEPT !.exercise_done = TRUE]) : Show(view)
       ELSE /\ ss.mistakes < MaxMistakes
            /\ ShowFragmentError(mistake_made(ss))
    /\ UNCHANGED <<typed, visit_links>>
    /\ StoreUnchanged

\* render_order: a click on the i-th token button, disabled once its text is used
ClickToken(i) ==
    /\ on_step("order")
    /\ token_button_enabled(ss, i)
    /\ \E view \in player_run([ss EXCEPT !.used_tokens = @ \o <<ss.order_tokens[i]>>,
                                          !.order_answer = @ \o <<ss.order_tokens[i]>>]) :
          Show(view)
    /\ UNCHANGED <<typed, visit_links>>
    /\ StoreUnchanged

\* render_order: "Undo"
Undo ==
    /\ on_step("order")
    /\ \E view \in player_run([ss EXCEPT !.order_answer = <<>>, !.used_tokens = <<>>]) : Show(view)
    /\ UNCHANGED <<typed, visit_links>>
    /\ StoreUnchanged

\* "Check" taking the placed tokens back after a wrong answer
CheckOrder_clearing ==
    /\ on_step("order")
    /\ ~script_aborted
    /\ LET solutions == ss.correct_order
       IN  IF ss.order_answer = solutions
           THEN \E view \in player_run([ss EXCEPT !.exercise_done = TRUE]) : Show(view)
           ELSE /\ ss.mistakes < MaxMistakes
                /\ ShowFragmentError(mistake_made([ss EXCEPT !.order_answer = <<>>, !.used_tokens = <<>>]))
    /\ UNCHANGED <<typed, visit_links>>
    /\ StoreUnchanged

\* render_order: "Check"
CheckOrder ==
    /\ on_step("order")
    /\ ~script_aborted
    /\ LET solutions == ss.correct_order
       IN  IF ss.order_answer = solutions
           THEN \E view \in player_run([ss EXCEPT !.exercise_done = TRUE]) : Show(view)
           ELSE /\ ss.mistakes < MaxMistakes
                /\ ShowFragmentError(mistake_made(ss))
    /\ UNCHANGED <<typed, visit_links>>
    /\ StoreUnchanged

\* render_match: the item the first pair holding match_sel_btn links it to
corresponding_btn(pairs, match_sel_btn) ==
    LET hits == {i \in DOMAIN pairs : pairs[i].left = match_sel_btn \/ pairs[i].right = match_sel_btn}
    IN  IF hits = {} THEN ""
        ELSE LET pair == pairs[CHOOSE i \in hits : \A j \in hits : i <= j]
             IN  IF pair.left = match_sel_btn THEN pair.right ELSE pair.left

\* check_buttons counting a click on an item that does not match as a mistake
check_buttons_penalty(s, step, elm) ==
    IF s.match_sel_btn # None
    THEN IF elm = corresponding_btn(step.pairs, s.match_sel_btn)
         THEN [s EXCEPT !.pressed_match_buttons = @ \o <<elm, s.match_sel_btn>>,
                        !.match_sel_btn = None,
                        !.match_sound = "correct",
                        !.last_pair = <<corresponding_btn(step.pairs, s.match_sel_btn), s.match_sel_btn>>]
         ELSE mistake_made([s EXCEPT !.match_sel_btn = None, !.match_sound = "wrong"])
    ELSE [s EXCEPT !.last_pair = <<>>, !.match_sel_btn = elm]

\* render_match.check_buttons(elm)
check_buttons(s, step, elm) ==
    IF s.match_sel_btn # None
    THEN IF elm = corresponding_btn(step.pairs, s.match_sel_btn)
         THEN [s EXCEPT !.pressed_match_buttons = @ \o <<elm, s.match_sel_btn>>,
                        !.match_sel_btn = None,
                        !.match_sound = "correct",
                        !.last_pair = <<corresponding_btn(step.pairs, s.match_sel_btn), s.match_sel_btn>>]
         ELSE [s EXCEPT !.match_sel_btn = None, !.match_sound = "wrong"]
    ELSE [s EXCEPT !.last_pair = <<>>, !.match_sel_btn = elm]

\* render_match: a click on the button of elm, one of the items shown in the two columns
ClickMatch(elm) ==
    /\ on_step("match")
    /\ PyIn(elm, ss.left) \/ PyIn(elm, ss.right)
    /\ ~(PyIn(elm, ss.pressed_match_buttons) \/ elm = ss.match_sel_btn)
    /\ \E view \in player_run(check_buttons(ss, current_step(ss), elm)) : Show(view)
    /\ visit_links' =
          IF ss.match_sel_btn # None /\ elm = corresponding_btn(current_step(ss).pairs, ss.match_sel_btn)
          THEN visit_links \cup {elm, ss.match_sel_btn}
          ELSE visit_links
    /\ UNCHANGED typed
    /\ StoreUnchanged

(***************************************************************************)
(* Spec: one logged-in learner on the course page and in the lessons of   *)
(* the course.                                                             *)
(***************************************************************************)
\* what the learner types in Spec
Answers == {<<"J", "a", "!">>, <<"j", "o">>, <<"n", "e">>}

\* both items of every pair of a match step
step_items(step) == UNION {{step.pairs[j].left, step.pairs[j].right} : j \in DOMAIN step.pairs}

\* the items of every match step of the course
MatchItems == UNION {UNION {step_items(l.steps[i]) : i \in DOMAIN l.steps} : l \in Lessons}

\* the wall clock reading of a "continue" in Spec
SessionTimes == {0}

Init ==
    /\ ss = FreshSession(FALSE)
    /\ outcome = FALSE
    /\ feedback = {}
    /\ typed = <<>>
    /\ lesson_progress = {}
    /\ user_stats = {}
    /\ ret = [op |-> "none"]
    /\ inflight = [s \in Sessions |-> IdleCall]
    /\ visit_links = {}
    /\ done_steps = NoHistory

Next ==
    \/ \E lesson \in Lessons : StartLesson(lesson)
    \/ \E now \in SessionTimes : StartRecommended(now)
    \/ StartRepetition
    \/ BackToLessons
    \/ Back
    \/ Skip
    \/ NextStep
    \/ FinishLesson
    \/ \E now \in SessionTimes : Continue(now)
    \/ \E text \in Answers : TypeText(text)
    \/ SubmitCloze
    \/ SubmitTranslate
    \/ SubmitListen
    \/ \E label \in {"True", "False"} : ClickTrueFalse(label)
    \/ \E i \in 1..3 : ClickToken(i)
    \/ Undo
    \/ CheckOrder
    \/ \E elm \in MatchItems : ClickMatch(elm)

Spec == Init /\ [][Next]_vars

(***************************************************************************)
(* SpecText: the three free-text step types on one-step lessons, the       *)
(* learner typing every text of at most MaxLen characters of Alphabet, and *)
(* one-step true_false lessons with every answer of TrueFalseAnswers.      *)
(***************************************************************************)
Alphabet == {"J", "j", "a", "U+00E4", "!", "1", " "}

AnswerLists == {<<>>, <<<<"j", "a">>>>, <<<<"j", "U+00E4">>, <<"a", "!">>>>}

TextLessons ==
    {[id |-> "text", steps |-> <<[Step("text_0", type) EXCEPT !.answers = answers,
                                                             !.target = <<<<"S">>, <<"!">>>>]>>] :
        type \in text_types, answers \in AnswerLists}

\* the answer field of a true_false step: the two labels, and two values no
\* label is equal to
TrueFalseAnswers == {"True", "False", "true", ""}

TrueFalseLessons ==
    {[id |-> "true_false", steps |-> <<[Step("true_false_0", "true_false") EXCEPT !.answer = answer]>>] :
        answer \in TrueFalseAnswers}

NextText ==
    \/ \E lesson \in TextLessons \cup TrueFalseLessons : StartLesson(lesson)
    \/ \E label \in {"True", "False"} : ClickTrueFalse(label)
    \/ \E c \in Alphabet : Len(typed) < MaxLen /\ TypeText(Append(typed, c))
    \/ TypeText(<<>>)
    \/ SubmitCloze
    \/ SubmitTranslate
    \/ SubmitListen

SpecText == Init /\ [][NextText]_vars

(***************************************************************************)
(* Lesson 01_match from the empty store, with the history of the steps     *)
(* that were shown completed.                                              *)
(***************************************************************************)
InitSkip ==
    /\ ss = FreshSession(FALSE)
    /\ outcome = FALSE
    /\ feedback = {}
    /\ typed = <<>>
    /\ lesson_progress = {}
    /\ user_stats = {}
    /\ ret = [op |-> "none"]
    /\ inflight = [s \in Sessions |-> IdleCall]
    /\ visit_links = {}
    /\ done_steps = [tracked |-> TrackedSteps, done |-> {}]

NextSkip ==
    \/ StartLesson(LessonMatch)
    \/ \E now \in SessionTimes : StartRecommended(now)
    \/ BackToLessons
    \/ Back
    \/ Skip
    \/ NextStep
    \/ FinishLesson
    \/ \E now \in SessionTimes : Continue(now)
    \/ \E label \in {"True", "False"} : ClickTrueFalse(label)
    \/ \E elm \in MatchItems : ClickMatch(elm)

SpecSkip == InitSkip /\ [][NextSkip]_vars

(***************************************************************************)
(* The order step over token lists with and without a repeated token text. *)
(***************************************************************************)
TokenLists == {<<"Ich", "gseh", "Baern">>, <<"ja", "ja">>, <<"das", "isch", "das">>}

OrderLessons ==
    {[id |-> "order", steps |-> <<[Step("order_0", "order") EXCEPT !.tokens = tokens]>>] :
        tokens \in TokenLists}

NextOrder ==
    \/ \E lesson \in OrderLessons : StartLesson(lesson)
    \/ \E i \in 1..3 : ClickToken(i)
    \/ Undo
    \/ CheckOrder
    \/ BackToLessons

SpecOrder == Init /\ [][NextOrder]_vars

(***************************************************************************)
(* SpecStore: the calls the pages make on the ProgressStore, for the       *)
(* session's user and course, with every clock reading of Times.           *)
(***************************************************************************)
MaxStored == 11    \* longest known_words list the calls build
MaxTime == 2       \* latest clock reading, in ticks

Times == 0..MaxTime

MistakeCounts == {0, MAX_MISTAKES + 1}

PageUnchanged == UNCHANGED <<ss, outcome, feedback, typed, visit_links, inflight, done_steps>>

known_words_now == get_known_words(ss.guest, user_stats, ss.user, ss.nav.course_id)

\* finishing_screen's call; new_words is what the start of the lesson left
CallLessonCompleted(lesson, mistakes_made, new_words, now) ==
    LET tables == lesson_completed(ss.guest, lesson_progress, user_stats, ss.user,
                                   ss.nav.course_id, lesson.id, mistakes_made, new_words, now)
    IN  /\ Len(known_words_now) + Len(new_words) <= MaxStored
        /\ lesson_progress' = tables.lesson_progress
        /\ user_stats' = tables.user_stats
        /\ ret' = IF ss.guest
                  THEN [op |-> "lesson_completed", guest |-> TRUE, value |-> 0]
                  ELSE [op |-> "lesson_completed", guest |-> FALSE, user_id |-> ss.user,
                        course_id |-> ss.nav.course_id, lesson_id |-> lesson.id,
                        mistakes_made |-> mistakes_made, new_words |-> new_words, now |-> now]
        /\ PageUnchanged

CallResetLesson(lesson_id) ==
    /\ lesson_progress' = reset_lesson(ss.guest, lesson_progress, ss.user, ss.nav.course_id, lesson_id)
    /\ ret' = [op |-> "reset_lesson", lesson_id |-> lesson_id]
    /\ UNCHANGED user_stats
    /\ PageUnchanged

CallCheckLessonCompleted(lesson_id) ==
    /\ ret' = [op |-> "check_lesson_completed", lesson_id |-> lesson_id,
               value |-> check_lesson_completed(ss.guest, lesson_progress, ss.user,
                                                ss.nav.course_id, lesson_id)]
    /\ UNCHANGED <<lesson_progress, user_stats>>
    /\ PageUnchanged

CallGetKnownWords ==
    /\ ret' = [op |-> "get_known_words", value |-> known_words_now]
    /\ UNCHANGED <<lesson_progress, user_stats>>
    /\ PageUnchanged

CallGetRecommendedLesson(lessons_info, now) ==
    /\ lessons_info \in RowOrders(completed_rows(lesson_progress, ss.user, ss.nav.course_id))
    /\ ret' = [op |-> "get_recommended_lesson", lessons_info |-> lessons_info, now |-> now,
               value |-> get_recommended_lesson(ss.guest, lessons_info, now)]
    /\ UNCHANGED <<lesson_progress, user_stats>>
    /\ PageUnchanged

CallGenerateWordRepetition(known_words_temp) ==
    /\ known_words_temp \in Shuffles(known_words_now)
    /\ ret' = [op |-> "generate_word_repetition",
               none |-> generate_word_repetition_none(ss.guest, known_words_temp),
               value |-> generate_word_repetition(ss.guest, known_words_temp)]
    /\ UNCHANGED <<lesson_progress, user_stats>>
    /\ PageUnchanged

\* logout, then the login page: "Login" or "Continue as Guest"
Relogin(guest) ==
    /\ ss' = FreshSession(guest)
    /\ ss' # ss
    /\ ret' = [op |-> "login"]
    /\ UNCHANGED <<outcome, feedback, typed, visit_links, inflight, done_steps, lesson_progress, user_stats>>

InitStore ==
    /\ ss \in {FreshSession(guest) : guest \in BOOLEAN}
    /\ outcome = FALSE
    /\ feedback = {}
    /\ typed = <<>>
    /\ lesson_progress = {}
    /\ user_stats = {}
    /\ ret = [op |-> "none"]
    /\ inflight = [s \in Sessions |-> IdleCall]
    /\ visit_links = {}
    /\ done_steps = NoHistory

NextStore ==
    \/ \E lesson \in Lessons, mistakes_made \in MistakeCounts, now \in Times :
          \E new_words \in {<<>>, find_new_exercises(lesson)} :
             CallLessonCompleted(lesson, mistakes_made, new_words, now)
    \/ \E lesson \in Lessons : CallResetLesson(lesson.id)
    \/ \E lesson \in Lessons : CallCheckLessonCompleted(lesson.id)
    \/ CallGetKnownWords
    \/ \E now \in Times :
          \E lessons_info \in RowOrders(completed_rows(lesson_progress, ss.user, ss.nav.course_id)) :
             CallGetRecommendedLesson(lessons_info, now)
    \/ \E known_words_temp \in Shuffles(known_words_now) : CallGenerateWordRepetition(known_words_temp)
    \/ \E guest \in BOOLEAN : Relogin(guest)

SpecStore == InitStore /\ [][NextStore]_vars

(***************************************************************************)
(* The recommendation over a table that also holds rows of another user    *)
(* and of another course.                                                  *)
(***************************************************************************)
\* rows written by the sessions of another user, and by this user in another course
OtherRows ==
    {[user_id |-> "u2", course_id |-> "c1", lesson_id |-> "02_text", completed |-> 1,
      mistakes |-> MAX_MISTAKES + 1, updated_at |-> 0],
     [user_id |-> "u1", course_id |-> "c2", lesson_id |-> "02_text", completed |-> 1,
      mistakes |-> MAX_MISTAKES + 1, updated_at |-> 0]}

InitRecommend ==
    /\ ss \in {FreshSession(guest) : guest \in BOOLEAN}
    /\ outcome = FALSE
    /\ feedback = {}
    /\ typed = <<>>
    /\ lesson_progress \in SUBSET OtherRows
    /\ user_stats = {}
    /\ ret = [op |-> "none"]
    /\ inflight = [s \in Sessions |-> IdleCall]
    /\ visit_links = {}
    /\ done_steps = NoHistory

NextRecommend ==
    \/ \E lesson \in Lessons, mistakes_made \in MistakeCounts, now \in Times :
          CallLessonCompleted(lesson, mistakes_made, <<>>, now)
    \/ \E lesson \in Lessons : CallResetLesson(lesson.id)
    \/ \E now \in Times :
          \E lessons_info \in RowOrders(completed_rows(lesson_progress, ss.user, ss.nav.course_id)) :
             CallGetRecommendedLesson(lessons_info, now)
    \/ \E guest \in BOOLEAN : Relogin(guest)

SpecRecommend == InitRecommend /\ [][NextRecommend]_vars

(***************************************************************************)
(* SpecConc: the user is logged in from the browser sessions of Sessions   *)
(* and completes lessons started from the lesson list in each.  A          *)
(* lesson_completed call is three requests to the database (the select of  *)
(* get_known_words and the two upserts), each atomic, and the requests of  *)
(* two calls interleave; execute() raises when a request fails.            *)
(***************************************************************************)
ConcUnchanged == UNCHANGED <<ss, outcome, feedback, typed, visit_links, done_steps, ret>>

\* lesson_completed up to the loop over new_words: the select and the merge
BeginLessonCompleted(s, lesson, mistakes_made, now) ==
    /\ inflight[s].pc \in {"idle", "done", "failed"}
    /\ ~ss.guest
    /\ LET new_words == find_new_exercises(lesson)
           completed_list == add_new_words(known_words_now, new_words)
       IN  /\ Len(completed_list) <= MaxStored
           /\ inflight' = [inflight EXCEPT ![s] =
                  [pc |-> "upsert_progress", lesson_id |-> lesson.id,
                   mistakes_made |-> mistakes_made, new_words |-> new_words, now |-> now,
                   completed_list |-> completed_list]]
    /\ UNCHANGED <<lesson_progress, user_stats>>
    /\ ConcUnchanged

\* lesson_completed: the upsert into lesson_progress
UpsertProgress(s) ==
    /\ inflight[s].pc = "upsert_progress"
    /\ LET row == [user_id |-> ss.user, course_id |-> ss.nav.course_id,
                   lesson_id |-> inflight[s].lesson_id, completed |-> 1,
                   mistakes |-> inflight[s].mistakes_made, updated_at |-> inflight[s].now]
       IN  lesson_progress' = {r \in lesson_progress : ~same_progress_key(r, row)} \cup {row}
    /\ inflight' = [inflight EXCEPT ![s].pc = "upsert_stats"]
    /\ UNCHANGED user_stats
    /\ ConcUnchanged

\* lesson_completed: the upsert into user_stats
UpsertStats(s) ==
    /\ inflight[s].pc = "upsert_stats"
    /\ LET stat == [user_id |-> ss.user, course_id |-> ss.nav.course_id,
                    known_words |-> inflight[s].completed_list]
       IN  user_stats' = {r \in user_stats : ~same_stats_key(r, stat)} \cup {stat}
    /\ inflight' = [inflight EXCEPT ![s].pc = "done"]
    /\ UNCHANGED lesson_progress
    /\ ConcUnchanged

\* execute() of the next upsert raises and the call ends there
RequestFails(s) ==
    /\ inflight[s].pc \in {"upsert_progress", "upsert_stats"}
    /\ inflight' = [inflight EXCEPT ![s].pc = "failed"]
    /\ UNCHANGED <<lesson_progress, user_stats>>
    /\ ConcUnchanged

NextConc ==
    \/ \E s \in Sessions, lesson \in Lessons, mistakes_made \in MistakeCounts, now \in SessionTimes :
          BeginLessonCompleted(s, lesson, mistakes_made, now)
    \/ \E s \in Sessions : UpsertProgress(s)
    \/ \E s \in Sessions : UpsertStats(s)
    \/ \E s \in Sessions : RequestFails(s)

SpecConc == Init /\ [][NextConc]_vars

(***************************************************************************)
(* The verdict of a "Check" of a free-text step, read off the page.        *)
(***************************************************************************)
SubmitsText == SubmitCloze \/ SubmitTranslate \/ SubmitListen

JudgedCorrect ==
    "success" \in feedback' /\ "error" \notin feedback' /\ ss'.mistakes = ss.mistakes /\ outcome'

JudgedIncorrect == "error" \in feedback' /\ ss'.mistakes = ss.mistakes + 1

\* a letter in the sense of str.isalpha(); the other characters of Alphabet are a
\* digit, a space and a punctuation mark
IsLetter(c) == c \in ascii_letters \cup {"U+00E4", "U+00C4"}

\* the letters of a text, case folded
LettersFolded(text) == casefold(SelectSeq(text, IsLetter))

TextJa == <<"j", "a">>
TextJaBang == <<"J", "a", "!">>
TextJaeBang == <<"J", "U+00E4", "!">>

\* C3: a Check of a cloze, translate_type or listen_type step is judged correct
\* exactly when comparison_string of the typed text is one of the comparison_strings
\* of the step's answers, and is judged incorrect otherwise; comparison_string holds
\* no digit, space or punctuation mark and is case folded; and the verdict is the
\* one of the text's case-folded letters alone, so texts that differ only in case
\* or in non-letter characters get the same verdict.
C3_TextVerdict ==
    [][SubmitsText =>
          LET answers == current_step(ss).answers
              normal == comparison_string(typed)
          IN  /\ JudgedCorrect <=> PyIn(normal, [i \in DOMAIN answers |-> comparison_string(answers[i])])
              /\ ~JudgedCorrect <=> JudgedIncorrect
              /\ \A i \in DOMAIN normal : IsLetter(normal[i]) /\ casefold_char(normal[i]) = normal[i]
              /\ JudgedCorrect <=> answer_accepted(LettersFolded(typed), answers)]_vars

\* "Ja!" was typed and judged correct, and the page lets the learner go on
C3_Witness ==
    /\ ss.nav.page = "lesson"
    /\ current_step(ss).type \in text_types
    /\ typed = TextJaBang
    /\ feedback = {"success"}
    /\ outcome

\* C4 as claimed: "J a-umlaut !" is accepted against the answers ["ja"]
C4_JaeBangAccepted ==
    [][(SubmitsText /\ typed = TextJaeBang /\ current_step(ss).answers = <<TextJa>>)
          => JudgedCorrect]_vars

\* C4 amended: "Ja!" is accepted against the answers ["ja"], and "J a-umlaut !",
\* whose comparison_string is "j", is judged incorrect
C4_JaBangAccepted ==
    [][(SubmitsText /\ current_step(ss).answers = <<TextJa>>)
          => /\ typed = TextJaBang => JudgedCorrect
             /\ typed = TextJaeBang => JudgedIncorrect]_vars

\* "Ja!" was typed against the answers ["ja"] and the step is done
C4_Witness ==
    /\ ss.nav.page = "lesson"
    /\ current_step(ss).type \in {"translate_type", "listen_type"}
    /\ current_step(ss).answers = <<TextJa>>
    /\ typed = TextJaBang
    /\ ss.exercise_done
    /\ ss.mistakes = 0

\* C5: non-ASCII letters stay letters in the comparison, so a text is accepted
\* only if its case-folded letters are those of one of the answers
C5_UnicodeLettersKept ==
    [][SubmitsText =>
          LET answers == current_step(ss).answers
          IN  JudgedCorrect => \E i \in DOMAIN answers : LettersFolded(answers[i]) = LettersFolded(typed)]_vars

(***************************************************************************)
(* Claims on the lesson player.                                            *)
(***************************************************************************)
\* C1: a match step lets the learner go on only when the learner has linked every
\* pair of that step during the current visit of the step.
C1_MatchNeedsEveryPair ==
    (on_step("match") /\ outcome) => step_items(current_step(ss)) \subseteq visit_links

\* C6: "Check" on an order step completes the step exactly when order_answer is
\* the step's token list in its original order; with any other order_answer the
\* step is not completed by the check, an error is shown and the mistake is counted.
C6_OrderCheck ==
    [][CheckOrder =>
          IF ss.order_answer = current_step(ss).tokens
          THEN ss'.exercise_done /\ outcome' /\ "success" \in feedback' /\ ss'.mistakes = ss.mistakes
          ELSE /\ ss'.exercise_done = ss.exercise_done
               /\ outcome' = outcome
               /\ "error" \in feedback'
               /\ ss'.mistakes = ss.mistakes + 1]_vars

\* the order step is completed with the tokens in their original order, after the
\* shuffle showed them in another order and a first check was rejected
C6_Witness ==
    /\ on_step("order")
    /\ ss.order_tokens # current_step(ss).tokens
    /\ ss.order_answer = current_step(ss).tokens
    /\ ss.exercise_done
    /\ outcome
    /\ ss.mistakes = 1

(***************************************************************************)
(* Claims on the ProgressStore.                                            *)
(***************************************************************************)
\* the score of a completed row times 150
Score150(row, now) == 10 * Min(row.mistakes, 12) + delta_days(now, row.updated_at)

\* no two entries of the list are the same word
NoWordTwice(words) == \A i, j \in DOMAIN words : words[i].id = words[j].id => i = j

\* C2: for a user who is no guest, a call of lesson_completed that repeats the
\* call before it (same lesson, same new_words) leaves known_words as long as it
\* was, and no word is ever twice in known_words.
C2_KnownWordsIdempotent ==
    [][\A lesson \in Lessons, mistakes_made \in MistakeCounts, now \in Times :
          (/\ ~ss.guest
           /\ ret.op = "lesson_completed"
           /\ ret.lesson_id = lesson.id
           /\ CallLessonCompleted(lesson, mistakes_made, ret.new_words, now))
          => /\ Len(known_words_now') = Len(known_words_now)
             /\ NoWordTwice(known_words_now')]_vars

\* C7: for a user who is no guest, get_recommended_lesson returns no lesson when
\* no row is completed and the lesson of the row when exactly one is, whatever the
\* mistakes and the updated_at of that row.
C7_RecommendZeroOrOne ==
    [][\A now \in Times :
          \A lessons_info \in RowOrders(completed_rows(lesson_progress, ss.user, ss.nav.course_id)) :
             (~ss.guest /\ CallGetRecommendedLesson(lessons_info, now))
             => /\ Len(lessons_info) = 0 => ret'.value = ""
                /\ Len(lessons_info) = 1 => ret'.value = lessons_info[1].lesson_id]_vars

\* C8: with at least one completed row, get_recommended_lesson returns the lesson
\* of a row whose score 0.8 * min(mistakes, 12) / 12 + 0.2 * days / 30 no other
\* completed row exceeds.
C8_RecommendMaxScore ==
    [][\A now \in Times :
          \A lessons_info \in RowOrders(completed_rows(lesson_progress, ss.user, ss.nav.course_id)) :
             (~ss.guest /\ Len(lessons_info) >= 1 /\ CallGetRecommendedLesson(lessons_info, now))
             => \E i \in DOMAIN lessons_info :
                   /\ ret'.value = lessons_info[i].lesson_id
                   /\ \A j \in DOMAIN lessons_info :
                         Score150(lessons_info[j], now) <= Score150(lessons_info[i], now)]_vars

\* C9: when several completed rows share the highest score,
\* get_recommended_lesson returns the lesson of the last of them in the order of
\* the scan.
C9_RecommendLastOfTies ==
    [][\A now \in Times :
          \A lessons_info \in RowOrders(completed_rows(lesson_progress, ss.user, ss.nav.course_id)) :
             (~ss.guest /\ CallGetRecommendedLesson(lessons_info, now))
             => LET top == {i \in DOMAIN lessons_info :
                               \A j \in DOMAIN lessons_info :
                                  Score150(lessons_info[j], now) <= Score150(lessons_info[i], now)}
                IN  Cardinality(top) >= 2
                    => ret'.value = lessons_info[CHOOSE i \in top : \A j \in top : j <= i].lesson_id]_vars

\* C10: for a user who is no guest, generate_word_repetition returns a lesson
\* "REPETITION" of at most min(10, number of known words) steps, each of them one
\* of the known words, and no word is twice among the steps.
C10_RepetitionSteps ==
    [][\A known_words_temp \in Shuffles(known_words_now) :
          (~ss.guest /\ CallGenerateWordRepetition(known_words_temp))
          => /\ ret'.value.id = "REPETITION"
             /\ Len(ret'.value.steps) <= Min(10, Len(known_words_now))
             /\ \A i \in DOMAIN ret'.value.steps : PyIn(ret'.value.steps[i], known_words_now)
             /\ NoWordTwice(ret'.value.steps)]_vars

\* C11: in a guest session no call of the store changes lesson_progress or
\* user_stats; check_lesson_completed returns 0, get_known_words the empty list,
\* get_recommended_lesson and generate_word_repetition None.
C11_GuestNoOp ==
    [][ss.guest =>
          /\ lesson_progress' = lesson_progress
          /\ user_stats' = user_stats
          /\ ret'.op = "check_lesson_completed" => ret'.value = 0
          /\ ret'.op = "get_known_words" => ret'.value = <<>>
          /\ ret'.op = "get_recommended_lesson" => ret'.value = None
          /\ ret'.op = "generate_word_repetition" => ret'.value = None]_vars

\* a guest has called lesson_completed on a store that holds the rows of a user
C11_Witness ==
    /\ ss.guest
    /\ ret.op = "lesson_completed"
    /\ ret.guest
    /\ ret.value = 0
    /\ lesson_progress # {}
    /\ user_stats # {}
    /\ \A r \in lesson_progress \cup user_stats : r.user_id = "u1"

\* C12: lesson_progress holds at most one row per (user, course, lesson); after a
\* completion the row of its key holds the mistakes and the updated_at of that
\* call; and no step but reset_lesson takes a completed row away or clears its flag.
C12_ProgressUpsert ==
    /\ [](\A r1, r2 \in lesson_progress : same_progress_key(r1, r2) => r1 = r2)
    /\ [][LET written == [user_id |-> ret'.user_id, course_id |-> ret'.course_id,
                         lesson_id |-> ret'.lesson_id, completed |-> 1,
                         mistakes |-> ret'.mistakes_made, updated_at |-> ret'.now]
              kept(r) == \E r2 \in lesson_progress' : same_progress_key(r, r2) /\ r2.completed = 1
          IN  /\ (ret'.op = "lesson_completed" /\ ~ret'.guest) => (written \in lesson_progress')
              /\ (ret'.op # "reset_lesson") => (\A r \in lesson_progress : r.completed = 1 => kept(r))]_vars

\* a lesson completed before is completed again with more mistakes and an earlier
\* clock reading, and its row holds the values of this call
C12_Witness ==
    /\ ret.op = "lesson_completed"
    /\ ~ret.guest
    /\ ret.mistakes_made > MAX_MISTAKES
    /\ ret.now = 0
    /\ ret.new_words # <<>>
    /\ Len(known_words_now) = 2 * Len(ret.new_words)
    /\ lesson_progress = {[user_id |-> ret.user_id, course_id |-> ret.course_id,
                           lesson_id |-> ret.lesson_id, completed |-> 1,
                           mistakes |-> ret.mistakes_made, updated_at |-> 0]}

\* the exercise steps of the lesson are all in the user's known_words
words_known(lesson_id) ==
    LET new_words == find_new_exercises(load_lesson_content(lesson_id))
    IN  \A i \in DOMAIN new_words : PyIn(new_words[i], known_words_now)

\* C13: known_words only grows: a word that is in the known_words of a user
\* and course before a step is in it after the step.
C13_KnownWordsGrow ==
    [][\A r \in user_stats :
          \E r2 \in user_stats' :
             /\ same_stats_key(r, r2)
             /\ \A i \in DOMAIN r.known_words : PyIn(r.known_words[i], r2.known_words)]_vars

\* C14: with one session completing lessons, the store never shows the progress
\* row of a completion without the words of that completion in known_words, nor
\* the words without the row.
C14_WritesAtomic ==
    inflight["s2"].pc = "idle"
    => \A lesson \in Lessons :
          (\E r \in lesson_progress : r.lesson_id = lesson.id) <=> words_known(lesson.id)

\* C15: when two sessions have each completed a lesson, and the two lessons
\* differ, both progress rows exist and known_words holds the words of both.
C15_NoLostWords ==
    (/\ inflight["s1"].pc = "done"
     /\ inflight["s2"].pc = "done"
     /\ inflight["s1"].lesson_id # inflight["s2"].lesson_id)
    => \A s \in Sessions :
          /\ \E r \in lesson_progress : r.lesson_id = inflight[s].lesson_id
          /\ words_known(inflight[s].lesson_id)

\* C16: for a user who is no guest, reset_lesson takes the row of its key, and
\* only that row, out of lesson_progress, so that check_lesson_completed of the
\* key is 0 afterwards, and leaves user_stats as it is.
C16_ResetLesson ==
    [][(ret'.op = "reset_lesson" /\ ~ss.guest)
          => /\ lesson_progress' =
                   {r \in lesson_progress :
                       ~(r.user_id = ss.user /\ r.course_id = ss.nav.course_id
                         /\ r.lesson_id = ret'.lesson_id)}
             /\ user_stats' = user_stats
             /\ check_lesson_completed(ss.guest, lesson_progress', ss.user, ss.nav.course_id,
                                       ret'.lesson_id) = 0]_vars

\* a completed lesson was reset: its row is gone, its words are known, and the
\* row of the other lesson is there
C16_Witness ==
    /\ ret.op = "reset_lesson"
    /\ ~ss.guest
    /\ words_known(ret.lesson_id)
    /\ known_words_now # <<>>
    /\ Cardinality(lesson_progress) = 1
    /\ \A r \in lesson_progress : r.lesson_id # ret.lesson_id /\ r.user_id = ss.user

\* C17: on the lesson page step_idx is at least 0 and less than the number of
\* steps; within a lesson it changes only by one step back, from an index above
\* 0, or by one step forward, from an index below the last one.
C17_StepIdxInRange ==
    /\ [](ss.nav.page = "lesson" => (0 <= ss.step_idx /\ ss.step_idx < Len(ss.lesson_dict.steps)))
    /\ [][(/\ ss.nav.page = "lesson"
            /\ ss'.nav.page = "lesson"
            /\ ss'.lesson_dict = ss.lesson_dict
            /\ ss'.step_idx # ss.step_idx)
           => \/ (ss'.step_idx = ss.step_idx - 1 /\ ss.step_idx > 0)
              \/ (ss'.step_idx = ss.step_idx + 1 /\ ss.step_idx < Len(ss.lesson_dict.steps) - 1)]_vars

\* the learner has skipped through lesson 02_text to its last step, where Skip
\* and Next are not offered and the step is not completed
C17_Witness ==
    /\ ss.nav.page = "lesson"
    /\ ss.nav.current_lesson = "02_text"
    /\ ss.step_idx = Len(ss.lesson_dict.steps) - 1
    /\ ss.step_idx > 0
    /\ last_condition(ss)
    /\ ~outcome

\* the Check of a cloze, order, translate_type or listen_type step, or a click
\* on True or False
Submits ==
    SubmitCloze \/ SubmitTranslate \/ SubmitListen \/ CheckOrder
        \/ \E label \in {"True", "False"} : ClickTrueFalse(label)

\* C18: on the lesson page the mistake counter never decreases; a submit on a
\* step that is not completed either shows an error, adds 1 to the counter and
\* leaves the step not completed, or shows success, leaves the counter as it is
\* and completes the step.
C18_MistakeCounter ==
    [][/\ (ss.nav.page = "lesson" /\ ss'.nav.page = "lesson") => (ss'.mistakes >= ss.mistakes)
       /\ (Submits /\ ~outcome)
             => IF "error" \in feedback'
                THEN ss'.mistakes = ss.mistakes + 1 /\ ~outcome' /\ "success" \notin feedback'
                ELSE ss'.mistakes = ss.mistakes /\ outcome' /\ "success" \in feedback']_vars

\* a true_false step completed after two wrong clicks
C18_Witness ==
    /\ on_step("true_false")
    /\ ss.step_idx = 0
    /\ ss.mistakes = 2
    /\ ss.exercise_done
    /\ outcome
    /\ feedback = {"success"}

\* C19: a submit on a step that is completed changes nothing: the session, the
\* mistake counter in it, and can_go_next = true stay as they are.
C19_SubmitWhenCompleted ==
    [][(Submits /\ outcome) => (ss' = ss /\ outcome')]_vars

\* C20: Back, Skip and Next leave every scratch field of a step at its initial
\* value, but for the pools the render of the new step loads, and leave mistakes
\* and new_words as they are.
C20_NavigationResets ==
    [][(Back \/ Skip \/ NextStep)
          => /\ ss'.used_tokens = <<>> /\ ss'.order_answer = <<>>
             /\ (current_step(ss').type # "order")
                   => (ss'.order_tokens = <<>> /\ ss'.correct_order = <<>>)
             /\ (current_step(ss').type # "match") => (ss'.left = <<>> /\ ss'.right = <<>>)
             /\ ss'.pressed_match_buttons = <<>>
             /\ ss'.match_sel_btn = None
             /\ ss'.last_pair = <<>>
             /\ ss'.take_over_answer = <<>>
             /\ ~ss'.exercise_done
             /\ ss'.mistakes = ss.mistakes
             /\ ss'.new_words = ss.new_words]_vars

\* the step_idx-th step of the same lesson is on the page before and after
SameStep ==
    /\ ss.nav.page = "lesson"
    /\ ss'.nav.page = "lesson"
    /\ ss'.lesson_dict = ss.lesson_dict
    /\ ss'.step_idx = ss.step_idx

\* C21: Completed is terminal for a step.  Once the page of a step shows
\* can_go_next = true, then as long as the same step stays on the page
\* can_go_next is still true, and a further render of the step in the session
\* state reached reports can_go_next = true again.
C21_CompletedTerminal ==
    [][(SameStep /\ outcome)
          => (outcome' /\ \A view \in player_run(ss') : view.can_go_next)]_vars

\* how often step occurs in the list words
Count(step, words) == Cardinality({i \in DOMAIN words : words[i] = step})

\* C22: the new-words accumulator holds the introduce_word or exercise step on
\* the page, which has been loaded, exactly once, and when a lesson has just
\* been started it holds no step but the first, the only one loaded so far.
C22_NewWordsOnLoad ==
    /\ [](ss.nav.page = "lesson"
             => (current_step(ss).type \in included_steps \cup {"introduce_word"}
                    => Count(current_step(ss), ss.new_words) = 1))
    /\ [][(ss.nav.page = "course_page" /\ ss'.nav.page = "lesson")
             => Range(ss'.new_words) \subseteq {current_step(ss')}]_vars

\* C23: no lesson_progress row has the lesson id "REPETITION", and a step
\* taken from the finishing screen of the repetition lesson leaves the
\* progress rows and the known words as they are.
C23_RepetitionNotStored ==
    /\ [](\A r \in lesson_progress : r.lesson_id # "REPETITION")
    /\ [][(ss.nav.page = "finish" /\ ss.nav.current_lesson = "REPETITION")
             => UNCHANGED <<lesson_progress, user_stats>>]_vars

\* the finishing screen of a repetition lesson, "continue" not yet pressed
C23_Witness ==
    /\ ss.nav.page = "finish"
    /\ ss.nav.current_lesson = "REPETITION"
    /\ ss.lesson_dict.id = "REPETITION"
    /\ lesson_progress # {}
    /\ user_stats # {}

\* C24: no step taken from the lesson page, the Lessons button included,
\* changes the progress rows or the known words; they change only in a step
\* from the finishing screen.
C24_AbandonNoWrite ==
    [][/\ (ss.nav.page = "lesson") => UNCHANGED <<lesson_progress, user_stats>>
       /\ (lesson_progress' # lesson_progress \/ user_stats' # user_stats) => (ss.nav.page = "finish")]_vars

\* the course page after the Lessons button: the session of the abandoned
\* lesson is still there, with a mistake made and a step reached, and the
\* store holds an earlier completion
C24_Witness ==
    /\ ss.nav.page = "course_page"
    /\ ss.lesson_dict.id = "02_text"
    /\ ss.step_idx > 0
    /\ ss.mistakes > 0
    /\ lesson_progress # {}
    /\ user_stats # {}

\* the rows of progress with the key (user_id, "c1", lesson_id)
RecordsOf(progress, user_id, lesson_id) ==
    {r \in progress : r.user_id = user_id /\ r.course_id = "c1" /\ r.lesson_id = lesson_id}

\* C25: check_lesson_completed returns 0 for a guest and for a key with no
\* row, and the stored completed flag otherwise.  lesson_completed by a user
\* leaves a row with completed = 1 for its key, the row stays until
\* reset_lesson is called for that key, and reset_lesson leaves no row.
C25_CheckLessonCompleted ==
    [][/\ (ret'.op = "check_lesson_completed")
             => LET rows == RecordsOf(lesson_progress, ss.user, ret'.lesson_id)
                IN  /\ Cardinality(rows) <= 1
                    /\ (ss.guest \/ rows = {}) => (ret'.value = 0)
                    /\ (~ss.guest /\ rows # {}) => (\A r \in rows : ret'.value = r.completed)
       /\ (ret'.op = "lesson_completed" /\ ~ss.guest)
             => (\E r \in RecordsOf(lesson_progress', ss.user, ret'.lesson_id) : r.completed = 1)
       /\ (ret'.op = "reset_lesson" /\ ~ss.guest)
             => (RecordsOf(lesson_progress', ss.user, ret'.lesson_id) = {})
       /\ \A lesson \in Lessons :
             LET rows == RecordsOf(lesson_progress, "u1", lesson.id)
             IN  (rows # {} /\ ~(ret'.op = "reset_lesson" /\ ret'.lesson_id = lesson.id))
                    => (RecordsOf(lesson_progress', "u1", lesson.id) # {}
                          /\ \A r \in RecordsOf(lesson_progress', "u1", lesson.id) : r.completed = 1)]_vars

\* the user is told that 02_text is completed while 01_match has no row
C25_Witness ==
    /\ ret.op = "check_lesson_completed"
    /\ ret.lesson_id = "02_text"
    /\ ret.value = 1
    /\ ~ss.guest
    /\ RecordsOf(lesson_progress, "u1", "01_match") = {}
    /\ user_stats # {}
    /\ \E r \in user_stats : Len(r.known_words) > 5

\* C26: generate_word_repetition called while the known words of the user
\* and course are empty returns None, not a lesson.
C26_EmptyKnownWordsNone ==
    [][(ret'.op = "generate_word_repetition" /\ known_words_now = <<>>) => ret'.none]_vars

\* C27: a cloze, translate_type or listen_type step with an empty answers list
\* is never completed and its page never shows an exception, and every Check
\* on it, whatever the text typed, the empty text included, is judged incorrect.
C27_EmptyAnswersNeverSatisfied ==
    /\ []((ss.nav.page = "lesson" /\ current_step(ss).type \in text_types /\ current_step(ss).answers = <<>>)
             => (~outcome /\ ~ss.exercise_done /\ "exception" \notin feedback))
    /\ [][(SubmitsText /\ current_step(ss).answers = <<>>) => (JudgedIncorrect /\ ~outcome')]_vars

\* C28: on a true_false step that is not completed, a click on the label that
\* is equal to the step's answer completes the step and leaves the mistake
\* counter, and a click on a label that is not equal to it adds 1 to the
\* counter and leaves the step not completed.
C28_TrueFalseExact ==
    [][\A label \in {"True", "False"} :
          (ClickTrueFalse(label) /\ ~outcome)
             => IF label = current_step(ss).answer
                THEN outcome' /\ ss'.exercise_done /\ ss'.mistakes = ss.mistakes
                ELSE ~outcome' /\ ~ss'.exercise_done /\ ss'.mistakes = ss.mistakes + 1]_vars

\* a step with the answer "False", completed after one click on "True"
C28_Witness ==
    /\ on_step("true_false")
    /\ current_step(ss).answer = "False"
    /\ ss.exercise_done
    /\ outcome
    /\ ss.mistakes = 1
    /\ feedback = {"success"}

\* the step types that show something and ask nothing
info_types == {"markdown", "introduce_word"}

\* C29: the page of a markdown or introduce_word step always shows
\* can_go_next = true, whatever the session held when the step was loaded, and
\* neither loading such a step nor anything done on its page changes the
\* mistake counter.
C29_InfoStepsSatisfied ==
    /\ []((ss.nav.page = "lesson" /\ current_step(ss).type \in info_types) => outcome)
    /\ [][/\ (ss.nav.page = "lesson" /\ ss'.nav.page = "lesson" /\ current_step(ss').type \in info_types)
                => (ss'.mistakes = ss.mistakes)
          /\ (ss.nav.page = "lesson" /\ current_step(ss).type \in info_types)
                => (ss'.mistakes = ss.mistakes)]_vars

\* the markdown step of 01_match, loaded again by Back with two mistakes made
\* and the items of a match step still in the session
C29_Witness ==
    /\ on_step("markdown")
    /\ ss.mistakes = 2
    /\ ss.pressed_match_buttons # <<>>
    /\ ss.left # <<>>
    /\ outcome

\* the items the first pair of pairs that holds item links it to: one item, or
\* none when no pair holds it
Counterparts(pairs, item) ==
    LET hits == {i \in DOMAIN pairs : item \in {pairs[i].left, pairs[i].right}}
        first == CHOOSE i \in hits : \A j \in hits : i <= j
    IN  IF hits = {} THEN {}
        ELSE IF pairs[first].left = item THEN {pairs[first].right} ELSE {pairs[first].left}

\* C30: in a match step with an item pending, a click on the counterpart of
\* the pending item, taken from the first pair that holds the pending item,
\* adds both items to the matched list and clears the pending selection; a
\* click on any other item clears the pending selection and leaves the matched
\* list and exercise_done as they are; neither changes the mistake counter.
C30_MatchLink ==
    [][\A elm \in MatchItems :
          (ClickMatch(elm) /\ ss.match_sel_btn # None)
             => /\ ss'.match_sel_btn = None
                /\ ss'.mistakes = ss.mistakes
                /\ IF elm \in Counterparts(current_step(ss).pairs, ss.match_sel_btn)
                   THEN ss'.pressed_match_buttons = ss.pressed_match_buttons \o <<elm, ss.match_sel_btn>>
                   ELSE /\ ss'.pressed_match_buttons = ss.pressed_match_buttons
                        /\ ss'.exercise_done = ss.exercise_done]_vars

\* the first pair of the step has just been linked: both items are in the
\* matched list, nothing is pending, and the step is not completed yet
C30_Witness ==
    /\ on_step("match")
    /\ Len(ss.pressed_match_buttons) = 2
    /\ ss.last_pair = ss.pressed_match_buttons
    /\ ss.pressed_match_buttons[1] \in Counterparts(current_step(ss).pairs, ss.pressed_match_buttons[2])
    /\ ss.match_sel_btn = None
    /\ ~ss.exercise_done
    /\ ~outcome
    /\ ss.mistakes = 0

\* the left items and the right items of a match step, in the order of its pairs
LeftItems(step) == [i \in DOMAIN step.pairs |-> step.pairs[i].left]
RightItems(step) == [i \in DOMAIN step.pairs |-> step.pairs[i].right]

\* C31: on the page of an order step the pool is a permutation of the step's
\* tokens and the solution the Check compares with is the step's token list;
\* on the page of a match step the two pools are permutations of the step's
\* left items and of its right items; and the lesson's steps stay as loaded.
C31_PoolsOfOwnStep ==
    /\ [](on_step("order")
             => /\ ss.order_tokens \in Perms(current_step(ss).tokens)
                /\ ss.correct_order = current_step(ss).tokens)
    /\ [](on_step("match")
             => /\ ss.left \in Perms(LeftItems(current_step(ss)))
                /\ ss.right \in Perms(RightItems(current_step(ss))))
    /\ [][(ss.nav.page = "lesson" /\ ss'.nav.page = "lesson") => (ss'.lesson_dict = ss.lesson_dict)]_vars

\* C32: a Check of an order step whose placed tokens are not the solution
\* leaves the placed tokens, the used tokens and the pool as they are; on the
\* page of an order step the placed tokens are only ever taken back by Undo; a
\* click in a match step on an item that is not the counterpart of the pending
\* one leaves the matched list and both pools as they are.
C32_PartialWorkKept ==
    [][/\ (CheckOrder /\ ss.order_answer # ss.correct_order)
             => /\ ss'.order_answer = ss.order_answer
                /\ ss'.used_tokens = ss.used_tokens
                /\ ss'.order_tokens = ss.order_tokens
       /\ (SameStep /\ on_step("order") /\ Len(ss'.order_answer) < Len(ss.order_answer)) => Undo
       /\ \A elm \in MatchItems :
             (ClickMatch(elm) /\ ss.match_sel_btn # None
                 /\ elm \notin Counterparts(current_step(ss).pairs, ss.match_sel_btn))
                => /\ ss'.pressed_match_buttons = ss.pressed_match_buttons
                   /\ ss'.left = ss.left
                   /\ ss'.right = ss.right]_vars

\* two tokens are placed, the Check has just called them wrong, and they are
\* still placed
C32_Witness ==
    /\ on_step("order")
    /\ Len(ss.order_answer) = 2
    /\ ss.used_tokens = ss.order_answer
    /\ ss.order_tokens # <<>>
    /\ ss.mistakes = 1
    /\ feedback = {"error"}
    /\ ~ss.exercise_done

\* C33: the finishing screen is entered only from the page of the last step of
\* the lesson with can_go_next = true; a progress row is written only from the
\* finishing screen of a session whose step_idx is len(steps) - 1; and Skip and
\* Next are not taken on the last step.
C33_FinishOnlyAfterLastStep ==
    [][/\ (ss'.nav.page = "finish" /\ ss.nav.page # "finish")
             => /\ ss.nav.page = "lesson"
                /\ ss.step_idx = Len(ss.lesson_dict.steps) - 1
                /\ outcome
                /\ ss'.step_idx = ss.step_idx
                /\ ss'.lesson_dict = ss.lesson_dict
       /\ (lesson_progress' # lesson_progress)
             => /\ ss.nav.page = "finish"
                /\ ss.step_idx = Len(ss.lesson_dict.steps) - 1
                /\ ss.lesson_dict.id = ss.nav.current_lesson
       /\ (Skip \/ NextStep) => (ss.step_idx < Len(ss.lesson_dict.steps) - 1)]_vars

\* lesson_completed has been called for 02_text and its row is stored
C33_Witness ==
    /\ ss.nav.page = "course_page"
    /\ ret.op = "lesson_completed"
    /\ ret.lesson_id = "02_text"
    /\ \E r \in lesson_progress : r.lesson_id = "02_text" /\ r.completed = 1

(***************************************************************************)
(* C34: every record of the stored known words is an exercise the learner  *)
(* has completed at least once: a step the learner only skipped, and never *)
(* brought to completed in any session, is not in known_words.  The        *)
(* history done_steps.done holds every step of done_steps.tracked that any *)
(* page ever showed completed since the empty store.                       *)
(***************************************************************************)
C34_KnownWordsWereCompleted ==
    \A r \in user_stats : \A i \in DOMAIN r.known_words :
        r.known_words[i].id \in done_steps.tracked => r.known_words[i].id \in done_steps.done

\* the same for the lessons whose every exercise step was shown completed
C34_CompletedWordsKnown ==
    \A r \in user_stats :
        (TrackedSteps \subseteq done_steps.done)
            => \A i \in DOMAIN r.known_words : r.known_words[i].id \in done_steps.done

(***************************************************************************)
(* C35: every order step can be completed, whatever the shuffle, whatever  *)
(* is already placed, and also when a token text occurs more than once.    *)
(* The answer grows only by the click on an enabled pool button and        *)
(* shrinks only by "Undo" to the empty answer, so completing the step      *)
(* needs, at every proper prefix of the correct order, an enabled button   *)
(* that carries the next token.                                            *)
(***************************************************************************)
IsProperPrefix(s, t) == Len(s) < Len(t) /\ s = SubSeq(t, 1, Len(s))

C35_NextTokenCanBePlaced ==
    (on_step("order") /\ ~ss.exercise_done /\ IsProperPrefix(ss.order_answer, ss.correct_order))
        => \E i \in DOMAIN ss.order_tokens :
              /\ ss.order_tokens[i] = ss.correct_order[Len(ss.order_answer) + 1]
              /\ token_button_enabled(ss, i)

\* the same on the steps whose token texts are all different
C35_DistinctTokensCanBePlaced ==
    (\A i, j \in DOMAIN ss.correct_order : i # j => ss.correct_order[i] # ss.correct_order[j])
        => C35_NextTokenCanBePlaced

(***************************************************************************)
(* C36: the mistakes written by lesson_completed are the incorrect submits *)
(* of the session of that lesson only.  Every start of a lesson (lesson    *)
(* list, recommendation, repetition) shows step 0 with the counter at 0;   *)
(* in the session the counter grows by one with every submit judged        *)
(* incorrect and changes in no other way; the call that writes the row     *)
(* passes the counter of the session that is finishing.                    *)
(***************************************************************************)
IncorrectSubmit ==
    \/ SubmitCloze /\ ~answer_accepted(typed, current_step(ss).answers)
    \/ SubmitTranslate /\ ~answer_accepted(typed, current_step(ss).answers)
    \/ SubmitListen /\ ~answer_accepted(typed, current_step(ss).answers)
    \/ CheckOrder /\ ss.order_answer # current_step(ss).tokens
    \/ \E label \in {"True", "False"} : ClickTrueFalse(label) /\ label # current_step(ss).answer

C36_MistakesOfThisSession ==
    [][ /\ (ss.nav.page = "course_page" /\ ss'.nav.page = "lesson")
            => (ss'.mistakes = 0 /\ ss'.step_idx = 0)
        /\ (ss.nav.page = "lesson" /\ ss'.nav.page \in {"lesson", "finish"})
            => ss'.mistakes = ss.mistakes + (IF IncorrectSubmit THEN 1 ELSE 0)
        /\ (lesson_progress' # lesson_progress \/ ret' # ret)
            => /\ ss.nav.page = "finish"
               /\ ret'.op = "lesson_completed"
               /\ ret'.lesson_id = ss.nav.current_lesson
               /\ ret'.mistakes_made = ss.mistakes
               /\ \E r \in lesson_progress' :
                     r.lesson_id = ss.nav.current_lesson /\ r.mistakes = ss.mistakes ]_vars

\* the session of 01_match that made two mistakes was finished and wrote 2; the
\* session of 02_text started after it shows step 0 with the counter at 0
C36_Witness ==
    /\ ss.nav.page = "lesson"
    /\ ss.nav.current_lesson = "02_text"
    /\ ss.step_idx = 0
    /\ ss.mistakes = 0
    /\ ret.op = "lesson_completed"
    /\ ret.mistakes_made = 2
    /\ \E r \in lesson_progress : r.lesson_id = "01_match" /\ r.mistakes = 2

(***************************************************************************)
(* C38: what get_recommended_lesson returns to a logged-in user is either  *)
(* no recommendation ("") or the lesson id of a row of that user and that  *)
(* course that is stored with completed = 1 at the time of the call: never *)
(* a lesson that was reset, a lesson only another user completed, or one   *)
(* completed only in another course.  ret is the last call to the store,   *)
(* and the tables are as that call left them.                              *)
(***************************************************************************)
C38_RecommendsOwnCompleted ==
    (ret.op = "get_recommended_lesson" /\ ~ss.guest)
        => \/ ret.value = ""
           \/ \E r \in lesson_progress :
                 /\ r.user_id = ss.user
                 /\ r.course_id = ss.nav.course_id
                 /\ r.completed = 1
                 /\ r.lesson_id = ret.value

\* 01_match is recommended to u1 while 02_text is stored, with a higher score,
\* only for another user and for another course
C38_Witness ==
    /\ ret.op = "get_recommended_lesson"
    /\ ~ss.guest
    /\ ret.value = "01_match"
    /\ OtherRows \subseteq lesson_progress
    /\ ~\E r \in lesson_progress :
           r.user_id = ss.user /\ r.course_id = ss.nav.course_id /\ r.lesson_id = "02_text"

(***************************************************************************)
(* C37: finishing a lesson passes the same new_words to lesson_completed   *)
(* whichever way the session was started: the exercise steps of the        *)
(* lesson, for a session started from the recommendation panel as for one  *)
(* started from the lesson list.                                           *)
(***************************************************************************)
C37_SameNewWords ==
    [][((\E now \in SessionTimes : Continue(now)) /\ ss.nav.current_lesson # "REPETITION")
          => /\ ret'.op = "lesson_completed"
             /\ ret'.new_words = find_new_exercises(load_lesson_content(ss.nav.current_lesson))]_vars

====
